---- MODULE Spec2Model ----
(***************************************************************************)
(* Model of pymadoka_patch/transport.py: the Transport class, which splits *)
(* an outbound message into chunks (split_in_chunks) and rebuilds an       *)
(* inbound message from the chunks delivered one at a time                 *)
(* (rebuild_chunk), reporting to a TransportDelegate.                      *)
(*                                                                         *)
(* rebuild_chunk calls the delegate synchronously, so a call is modelled   *)
(* up to the point where it either returns or enters a delegate callback;  *)
(* the callback's own behaviour (return, raise, deliver another chunk      *)
(* re-entrantly) belongs to the delegate and is a separate step.           *)
(***************************************************************************)
EXTENDS Integers, Sequences, FiniteSets, TLC

\* ------------------------------------------------------------------ bounds
MaxByte == 2        \* byte values are 0..MaxByte (0..255 in the program)
MaxFragLen == 2     \* longest byte chunk delivered
MaxStrLen == 1      \* longest str (non-byte, sized) chunk delivered
MaxChunks == 3      \* deliveries stop when the buffer holds this many chunks
MaxDepth == 2       \* nesting of rebuild_chunk calls (1 = no re-entrancy)
MaxReenter == 1     \* re-entrant deliveries made by one callback
MaxReentLen == 1    \* longest byte chunk a callback delivers re-entrantly
MaxDataLen == 4     \* longest data given to split_in_chunks
MaxChunkSize == 3   \* largest chunk_size given to split_in_chunks
MaxMixLen == 1      \* longest data split in between deliveries
MaxAccByte == 3     \* byte values where only the link layer delivers

Bytes == 0..MaxByte

SeqsUpTo(S, n) == UNION {[1..k -> S] : k \in 0..n}

\* A delivered chunk: a byte sequence (bytes, bytearray), a str (has a
\* length and items, but the items are not integers), or an object without
\* a length (None, an int).
ByteFragments == {[kind |-> "bytes", data |-> d] : d \in SeqsUpTo(Bytes, MaxFragLen)}

StrFragments == {[kind |-> "str", data |-> d] : d \in SeqsUpTo({0}, MaxStrLen)}

NoneFragment == [kind |-> "none", data |-> <<>>]

Fragments == ByteFragments \cup StrFragments \cup {NoneFragment}

\* the chunks a delegate callback delivers re-entrantly
ReentrantFragments ==
    {f \in ByteFragments : Len(f.data) <= MaxReentLen} \cup {NoneFragment}

\* ------------------------------------------------------- split_in_chunks
Min(a, b) == IF a < b THEN a ELSE b

\* range(0, len(data), chunk_size), as 0-based offsets in increasing order
RECURSIVE RangeFrom(_, _, _)
RangeFrom(i, stop, step) ==
    IF i >= stop THEN <<>> ELSE <<i>> \o RangeFrom(i + step, stop, step)

\* data[i:i + chunk_size]: a Python slice stops at the end of data
Slice(data, i, chunk_size) == SubSeq(data, i + 1, Min(i + chunk_size, Len(data)))

SplitDropsRemainder(data, chunk_size) ==
    LET offs == RangeFrom(0, Len(data) - (Len(data) % chunk_size), chunk_size)
    IN  [k \in 1..Len(offs) |-> Slice(data, offs[k], chunk_size)]

SplitEmptyChunk(data, chunk_size) ==
    LET offs == RangeFrom(0, Len(data), chunk_size)
    IN  IF data = <<>> THEN << <<>> >>
        ELSE [k \in 1..Len(offs) |-> Slice(data, offs[k], chunk_size)]

\* chunks = []; for i in range(...): chunks.append(data[i:i + chunk_size])
SplitInChunks(data, chunk_size) ==
    LET offs == RangeFrom(0, Len(data), chunk_size)
    IN  [k \in 1..Len(offs) |-> Slice(data, offs[k], chunk_size)]

\* ---------------------------------------------------------- rebuild_chunk
NotAnInt == -1      \* stands for a value that is not an integer (a str item)

\* len(chunk) raises TypeError for an object without a length
HasLen(chunk) == chunk.kind # "none"

PyLen(chunk) == Len(chunk.data)

\* chunk[0]
Item0(chunk) == IF chunk.kind = "bytes" THEN chunk.data[1] ELSE NotAnInt

\* the test `len(chunk) > 0` guarding the first chunk
FirstChunkEmptyAccepted(chunk) == PyLen(chunk) >= 0

FirstChunkOk(chunk) == PyLen(chunk) > 0

TotalCountsChunks(cs) == Len(cs)

\* sum(len(c) for c in self.chunks)
RECURSIVE TotalReceived(_)
TotalReceived(cs) ==
    IF cs = <<>> THEN 0 ELSE PyLen(Head(cs)) + TotalReceived(Tail(cs))

AllNonEmpty(cs) == \A i \in 1..Len(cs) : HasLen(cs[i]) /\ PyLen(cs[i]) > 0

\* len(c) succeeds for every buffered chunk
AllHaveLen(cs) == \A i \in 1..Len(cs) : HasLen(cs[i])

\* total_received >= self.expected_length
IsCompleteStrict(total, expected) == total > expected

IsCompleteExact(total, expected) == total = expected

IsComplete(total, expected) == total >= expected

\* bytearray.extend(chunk) raises TypeError on an item that is not an int
ExtendOk(cs) == \A i \in 1..Len(cs) : cs[i].kind = "bytes" \/ PyLen(cs[i]) = 0

RECURSIVE ConcatReversed(_)
ConcatReversed(cs) ==
    IF cs = <<>> THEN <<>> ELSE ConcatReversed(Tail(cs)) \o Head(cs).data

\* complete_data.extend(chunk) for each chunk of the buffer
RECURSIVE Concat(_)
Concat(cs) == IF cs = <<>> THEN <<>> ELSE Head(cs).data \o Concat(Tail(cs))

CompleteDataTruncated(cs, expected) ==
    SubSeq(Concat(cs), 1, Min(expected, Len(Concat(cs))))

\* complete_data: every buffered chunk, in buffer order
CompleteData(cs, expected) == Concat(cs)

\* Transport.__init__
FreshTransport == [chunks |-> <<>>, expected_length |-> 0]

ResetKeepsLength(t) == [chunks |-> <<>>, expected_length |-> t.expected_length]

\* self.chunks = []; self.expected_length = 0
Reset(t) == [chunks |-> <<>>, expected_length |-> 0]

NotifyBeforeReset(t) == t

\* the Transport's state when response_rebuilt is entered
StateAtNotify(t) == Reset(t)

FailedPayloadPartial(t) == Concat(SelectSeq(t.chunks, LAMBDA c : c.kind = "bytes"))

\* the argument of response_failed
FailedPayload(t) == <<>>

Origins == {"len", "index", "compare", "extend", "rebuilt_cb", "failed_cb"}

InternalOrigins == {"len", "index", "compare", "extend"}

CatchesCallbackOnly(origin) == origin = "rebuilt_cb"

\* `except Exception`: every fault above is a TypeError/IndexError, and a
\* delegate's exception is taken to derive from Exception
Catches(origin) == origin \in Origins

Outcome(t, out, data, origin) ==
    [chunks |-> t.chunks, expected_length |-> t.expected_length,
     out |-> out, data |-> data, origin |-> origin]

LengthFromEveryChunk(t, chunk) ==
    IF HasLen(chunk) /\ PyLen(chunk) > 0 THEN Item0(chunk) ELSE t.expected_length

\* self.expected_length after a later chunk: the else branch does not assign it
KeptLength(t, chunk) == t.expected_length

BufferReplaced(t, chunk) == <<chunk>>

\* self.chunks.append(chunk)
Buffered(t, chunk) == Append(t.chunks, chunk)

\* the first half of the try block: store the chunk
Accept(t, chunk) ==
    IF t.chunks = <<>>
    THEN IF ~HasLen(chunk) THEN Outcome(t, "fault", <<>>, "len")
         ELSE IF FirstChunkOk(chunk)
              THEN IF PyLen(chunk) = 0 THEN Outcome(t, "fault", <<>>, "index")
                   ELSE Outcome([chunks |-> <<chunk>>,
                                 expected_length |-> Item0(chunk)],
                                "stored", <<>>, "none")
              ELSE Outcome(t, "return", <<>>, "none")
    ELSE Outcome([chunks |-> Buffered(t, chunk),
                  expected_length |-> KeptLength(t, chunk)], "stored", <<>>, "none")

\* the second half of the try block: complete the message if it is all there
CheckComplete(t) ==
    IF ~AllHaveLen(t.chunks) THEN Outcome(t, "fault", <<>>, "len")
    ELSE IF t.expected_length = NotAnInt THEN Outcome(t, "fault", <<>>, "compare")
    ELSE IF IsComplete(TotalReceived(t.chunks), t.expected_length)
         THEN IF ~ExtendOk(t.chunks) THEN Outcome(t, "fault", <<>>, "extend")
              ELSE Outcome(StateAtNotify(t), "rebuilt",
                           CompleteData(t.chunks, t.expected_length), "none")
         ELSE Outcome(t, "return", <<>>, "none")

HandleExceptionNoHasattr(t, origin, hf) ==
    IF ~Catches(origin) THEN Outcome(t, "raise", <<>>, origin)
    ELSE IF hf THEN Outcome(Reset(t), "failed", FailedPayload(t), origin)
    ELSE Outcome(Reset(t), "raise", <<>>, "failed_cb")

\* the except clause; hf: the delegate has a response_failed attribute
HandleException(t, origin, hf) ==
    IF ~Catches(origin) THEN Outcome(t, "raise", <<>>, origin)
    ELSE IF hf THEN Outcome(Reset(t), "failed", FailedPayload(t), origin)
    ELSE Outcome(Reset(t), "return", <<>>, origin)

\* rebuild_chunk from its entry to its return or to the delegate callback
\* it enters: out is "return", "raise", "rebuilt" or "failed"
RebuildChunk(t, chunk, hf) ==
    LET a == Accept(t, chunk)
        c == IF a.out = "stored"
             THEN CheckComplete([chunks |-> a.chunks,
                                 expected_length |-> a.expected_length])
             ELSE a
    IN  IF c.out = "fault"
        THEN HandleException([chunks |-> c.chunks,
                              expected_length |-> c.expected_length],
                             c.origin, hf)
        ELSE c

\* ------------------------------------------------------------------ state
VARIABLES
    chunks,           \* self.chunks
    expected_length,  \* self.expected_length
    hasFailed,        \* hasattr(self.delegate, 'response_failed')
    stack,            \* the delegate callbacks being executed, outermost first
    result,           \* how the rebuild_chunk call that ended last ended
    op,               \* the step taken last
    lastChunk,        \* the argument of the rebuild_chunk call made last
    entry,            \* that call's number and the state it found
    ncalls,           \* rebuild_chunk calls since the current delivery began
    events,           \* the callbacks invoked since the current delivery began
    caught,           \* the exceptions caught since the current delivery began
    cyc,              \* the byte chunks delivered since an Idle state, if all
                      \* deliveries since then were outermost and of bytes
    shadow,           \* a Transport built anew at each completion or failure
                      \* and given the same chunks since
    shadowOut,        \* what the shadow's rebuild_chunk did last
    lastOut,          \* what this Transport's rebuild_chunk did last
    recovering,       \* the delivery before the current one hit a fault in
                      \* rebuild_chunk's own code and made no re-entrant call
    split_data,       \* split_in_chunks: data
    split_size,       \* split_in_chunks: chunk_size
    split_chunks,     \* split_in_chunks: the list returned
    split_at,         \* self.chunks when split_in_chunks was called last
    sent              \* how many chunks of split_chunks have been delivered

transportVars == <<chunks, expected_length, hasFailed>>

ghostVars == <<cyc, shadow, shadowOut, lastOut, recovering>>

splitVars == <<split_data, split_size, split_chunks, split_at, sent>>

vars == <<chunks, expected_length, hasFailed, stack, result, op, lastChunk,
          entry, ncalls, events, caught, cyc, shadow, shadowOut, lastOut,
          recovering,
          split_data, split_size, split_chunks, split_at, sent>>

Self == [chunks |-> chunks, expected_length |-> expected_length]

Top == stack[Len(stack)]

NoOutcome == [out |-> "none", data |-> <<>>]

\* Transport(delegate), and no call made yet
InitTransport ==
    /\ chunks = FreshTransport.chunks
    /\ expected_length = FreshTransport.expected_length
    /\ stack = <<>>
    /\ result = [status |-> "none", origin |-> "none"]
    /\ op = "init"
    /\ lastChunk = NoneFragment
    /\ entry = [call |-> 0, chunks |-> <<>>, expected_length |-> 0]
    /\ ncalls = 0
    /\ events = <<>>
    /\ caught = <<>>
    /\ cyc = <<>>
    /\ shadow = FreshTransport
    /\ shadowOut = NoOutcome
    /\ lastOut = NoOutcome
    /\ recovering = FALSE
    /\ split_chunks = <<>>
    /\ split_at = <<>>
    /\ sent = 0

Init ==
    /\ InitTransport
    /\ hasFailed \in BOOLEAN
    /\ split_data = <<>>
    /\ split_size = 1

\* the number of bytes in a list of chunks
RECURSIVE SumLen(_)
SumLen(fs) ==
    IF fs = <<>> THEN 0
    ELSE SumLen(SubSeq(fs, 1, Len(fs) - 1)) + Len(fs[Len(fs)].data)

\* the tracked message is still short of the length its first byte declares
CycLive == cyc # <<>> /\ SumLen(cyc) < cyc[1].data[1]

Event(call, r) ==
    [call |-> call, kind |-> r.out, data |-> r.data,
     chunks |-> r.chunks, expected_length |-> r.expected_length]

Frame(call, r) == [call |-> call, cb |-> r.out, data |-> r.data, reent |-> 0]

IsCallback(out) == out \in {"rebuilt", "failed"}

\* what entering or leaving the except clause records
NoteCaught(base, call, r, partial) ==
    IF r.origin # "none" /\ r.out # "raise"
    THEN Append(base, [call |-> call, origin |-> r.origin, partial |-> partial])
    ELSE base

InternalFault(cs, call) ==
    \E i \in 1..Len(cs) : cs[i].call = call /\ cs[i].origin \in InternalOrigins

\* The link layer (stack empty) or a running delegate callback calls
\* rebuild_chunk(chunk); the call runs until it returns, raises or enters a
\* delegate callback.
DeliverCall(chunk) ==
    /\ Len(stack) < MaxDepth
    /\ stack # <<>> => Top.reent < MaxReenter /\ chunk \in ReentrantFragments
    /\ Len(chunks) < MaxChunks
    /\ LET outer == stack = <<>>
           call == IF outer THEN 1 ELSE ncalls + 1
           r == RebuildChunk(Self, chunk, hasFailed)
           s == RebuildChunk(shadow, chunk, hasFailed)
           stk == IF outer THEN stack
                  ELSE [stack EXCEPT ![Len(stack)].reent = @ + 1]
       IN  /\ chunks' = r.chunks
           /\ expected_length' = r.expected_length
           /\ stack' = IF IsCallback(r.out) THEN Append(stk, Frame(call, r)) ELSE stk
           /\ result' = [status |-> IF IsCallback(r.out) THEN "running"
                                    ELSE IF r.out = "raise" THEN "raised"
                                    ELSE "returned",
                         origin |-> IF r.out = "raise" THEN r.origin ELSE "none"]
           /\ op' = "Deliver"
           /\ lastChunk' = chunk
           /\ entry' = [call |-> call, chunks |-> chunks,
                        expected_length |-> expected_length]
           /\ ncalls' = call
           /\ events' = LET base == IF outer THEN <<>> ELSE events
                        IN  IF IsCallback(r.out) THEN Append(base, Event(call, r))
                            ELSE base
           /\ caught' = NoteCaught(IF outer THEN <<>> ELSE caught, call, r,
                                   Len(chunks))
           /\ cyc' = IF ~outer THEN cyc
                     ELSE IF CycLive
                          THEN IF chunk.kind = "bytes" THEN Append(cyc, chunk)
                               ELSE <<>>
                          ELSE IF chunks = <<>> /\ chunk.kind = "bytes"
                                  /\ chunk.data # <<>>
                               THEN <<chunk>> ELSE <<>>
           /\ shadow' = IF IsCallback(r.out) \/ r.origin # "none"
                        THEN FreshTransport
                        ELSE [chunks |-> s.chunks,
                              expected_length |-> s.expected_length]
           /\ shadowOut' = [out |-> s.out, data |-> s.data]
           /\ lastOut' = [out |-> r.out, data |-> r.data]
           /\ recovering' = IF outer THEN ncalls = 1 /\ InternalFault(caught, 1)
                             ELSE recovering
    /\ UNCHANGED hasFailed

\* a delivery of a chunk that does not come from split_in_chunks
Deliver(chunk) == DeliverCall(chunk) /\ UNCHANGED splitVars

Pop == SubSeq(stack, 1, Len(stack) - 1)

\* response_rebuilt returns: rebuild_chunk returns
RebuiltReturns ==
    /\ stack # <<>> /\ Top.cb = "rebuilt"
    /\ stack' = Pop
    /\ result' = [status |-> "returned", origin |-> "none"]
    /\ op' = "RebuiltReturns"
    /\ UNCHANGED <<transportVars, lastChunk, entry, ncalls, events, caught,
                   ghostVars, splitVars>>

\* response_rebuilt raises: the call is inside the try block, so the
\* except clause runs
RebuiltRaises ==
    /\ stack # <<>> /\ Top.cb = "rebuilt"
    /\ LET r == HandleException(Self, "rebuilt_cb", hasFailed)
           s == HandleException(shadow, "rebuilt_cb", hasFailed)
       IN  /\ chunks' = r.chunks
           /\ lastOut' = [out |-> r.out, data |-> r.data]
           /\ shadowOut' = [out |-> s.out, data |-> s.data]
           /\ expected_length' = r.expected_length
           /\ stack' = IF IsCallback(r.out) THEN Append(Pop, Frame(Top.call, r))
                       ELSE Pop
           /\ result' = [status |-> IF IsCallback(r.out) THEN "running"
                                    ELSE IF r.out = "raise" THEN "raised"
                                    ELSE "returned",
                         origin |-> IF r.out = "raise" THEN r.origin ELSE "none"]
           /\ events' = IF IsCallback(r.out) THEN Append(events, Event(Top.call, r))
                        ELSE events
           /\ caught' = NoteCaught(caught, Top.call, r, Len(chunks))
    /\ op' = "RebuiltRaises"
    /\ shadow' = FreshTransport
    /\ UNCHANGED <<hasFailed, lastChunk, entry, ncalls, cyc, recovering, splitVars>>

\* response_failed returns: rebuild_chunk returns
FailedReturns ==
    /\ stack # <<>> /\ Top.cb = "failed"
    /\ stack' = Pop
    /\ result' = [status |-> "returned", origin |-> "none"]
    /\ op' = "FailedReturns"
    /\ UNCHANGED <<transportVars, lastChunk, entry, ncalls, events, caught,
                   ghostVars, splitVars>>

\* response_failed raises: the call is inside the except clause, so the
\* exception leaves rebuild_chunk
FailedRaises ==
    /\ stack # <<>> /\ Top.cb = "failed"
    /\ stack' = Pop
    /\ result' = [status |-> "raised", origin |-> "failed_cb"]
    /\ op' = "FailedRaises"
    /\ UNCHANGED <<transportVars, lastChunk, entry, ncalls, events, caught,
                   ghostVars, splitVars>>

Next ==
    \/ \E chunk \in Fragments : Deliver(chunk)
    \/ RebuiltReturns
    \/ RebuiltRaises
    \/ FailedReturns
    \/ FailedRaises

Spec == Init /\ [][Next]_vars

\* ------------------------------------------------ split_in_chunks, applied
SplitData == SeqsUpTo(Bytes, MaxDataLen)

ChunkSizes == 1..MaxChunkSize

\* the arguments of one split_in_chunks call are drawn at the start
InitSplit ==
    /\ InitTransport
    /\ hasFailed = TRUE
    /\ split_data \in SplitData
    /\ split_size \in ChunkSizes

SplitResetsBuffer(t) == [chunks |-> <<>>, expected_length |-> t.expected_length]

\* what split_in_chunks does to the Transport: its `chunks` is a local list
SplitSelf(t) == t

\* self.split_in_chunks(split_data, split_size)
Split ==
    /\ split_chunks' = SplitInChunks(split_data, split_size)
    /\ chunks' = SplitSelf(Self).chunks
    /\ expected_length' = SplitSelf(Self).expected_length
    /\ split_at' = chunks
    /\ sent' = 0
    /\ op' = "Split"
    /\ UNCHANGED <<hasFailed, stack, result, lastChunk, entry, ncalls,
                   events, caught, ghostVars, split_data, split_size>>

NextSplit == Split

SpecSplit == InitSplit /\ [][NextSplit]_vars

\* ------------------------- split_in_chunks called in between deliveries
MixData == SeqsUpTo(Bytes, MaxMixLen)

InitMix ==
    /\ InitTransport
    /\ hasFailed \in BOOLEAN
    /\ split_data \in MixData
    /\ split_size \in ChunkSizes

\* the link layer delivers chunks; the caller splits an outbound message at
\* any moment
NextMix ==
    \/ \E chunk \in Fragments : stack = <<>> /\ Deliver(chunk)
    \/ RebuiltReturns
    \/ RebuiltRaises
    \/ FailedReturns
    \/ FailedRaises
    \/ Split

SpecMix == InitMix /\ [][NextMix]_vars

\* --------------- only the link layer delivers, with a wider range of bytes
AccFragments ==
    {[kind |-> "bytes", data |-> d] : d \in SeqsUpTo(0..MaxAccByte, MaxFragLen)}
        \cup StrFragments \cup {NoneFragment}

NextAcc ==
    \/ \E chunk \in AccFragments : stack = <<>> /\ Deliver(chunk)
    \/ RebuiltReturns
    \/ RebuiltRaises
    \/ FailedReturns
    \/ FailedRaises

SpecAcc == Init /\ [][NextAcc]_vars

\* ------- byte chunks only, and non-empty chunks keep arriving from the link
LiveFragments ==
    {[kind |-> "bytes", data |-> d] : d \in SeqsUpTo(0..MaxAccByte, MaxFragLen)}

\* an empty chunk is delivered only while the buffer still has room for the
\* non-empty chunks that complete the message
RoomFor(chunk) ==
    (chunk.data = <<>> /\ chunks # <<>>) =>
        Len(chunks) + (expected_length - TotalReceived(chunks)) < MaxChunks

DeliverLive ==
    \E chunk \in LiveFragments :
        stack = <<>> /\ RoomFor(chunk) /\ Deliver(chunk)

DeliverNonEmpty ==
    \E chunk \in LiveFragments :
        chunk.data # <<>> /\ stack = <<>> /\ Deliver(chunk)

NextLive ==
    \/ DeliverLive
    \/ RebuiltReturns
    \/ RebuiltRaises
    \/ FailedReturns
    \/ FailedRaises

SpecLive == Init /\ [][NextLive]_vars /\ WF_vars(DeliverNonEmpty)

\* ------------------ a message is split and its chunks delivered in order
\* messages whose first byte is their length
RoundData ==
    UNION {{<<n>> \o p : p \in [1..(n - 1) -> Bytes]} : n \in 1..MaxChunks}

InitRound ==
    /\ InitTransport
    /\ hasFailed \in BOOLEAN
    /\ split_data \in RoundData
    /\ split_size \in ChunkSizes

SplitOnce == op = "init" /\ Split

\* the link layer delivers the next chunk of the split message
DeliverNext ==
    /\ op # "init"
    /\ stack = <<>>
    /\ sent < Len(split_chunks)
    /\ DeliverCall([kind |-> "bytes", data |-> split_chunks[sent + 1]])
    /\ sent' = sent + 1
    /\ UNCHANGED <<split_data, split_size, split_chunks, split_at>>

NextRound ==
    \/ SplitOnce
    \/ DeliverNext
    \/ RebuiltReturns
    \/ RebuiltRaises
    \/ FailedReturns
    \/ FailedRaises

SpecRound == InitRound /\ [][NextRound]_vars

\* ----------------------------------------------------------------- claims
\* the bytes of a list of chunks, in list order (chunks are records)
RECURSIVE FlatBytes(_)
FlatBytes(fs) ==
    IF fs = <<>> THEN <<>>
    ELSE FlatBytes(SubSeq(fs, 1, Len(fs) - 1)) \o fs[Len(fs)].data

\* the bytes of a list of byte sequences, in list order
RECURSIVE Joined(_)
Joined(ss) ==
    IF ss = <<>> THEN <<>> ELSE Joined(SubSeq(ss, 1, Len(ss) - 1)) \o ss[Len(ss)]

EventsOf(call, kind) ==
    SelectSeq(events, LAMBDA e : e.call = call /\ e.kind = kind)

Declared == cyc[1].data[1]

\* C1: byte chunks delivered to an Idle Reassembler, the first one non-empty
\* with first byte L: no callback is invoked while the cumulative length is
\* below L; the delivery that brings it to L or more invokes response_rebuilt
\* exactly once, inside that call, with all the chunks concatenated in
\* arrival order.
C1_CompletesAtDeclaredLength ==
    cyc # <<>> =>
        IF SumLen(cyc) < Declared
        THEN events = <<>>
        ELSE /\ Len(EventsOf(1, "rebuilt")) = 1
             /\ events[1].call = 1 /\ events[1].kind = "rebuilt"
             /\ events[1].data = FlatBytes(cyc)

C1_Witness ==
    /\ Len(cyc) >= 2
    /\ SumLen(cyc) >= Declared
    /\ Len(events) >= 1 /\ events[1].kind = "rebuilt"
    /\ stack = <<>>

\* C2: for non-empty data and positive chunk_size, the chunks returned by
\* split_in_chunks concatenate to data, every chunk but the last has length
\* chunk_size, and the last has length 1..chunk_size.
C2_SplitPartitions ==
    (op = "Split" /\ split_data # <<>>) =>
        /\ split_chunks # <<>>
        /\ Joined(split_chunks) = split_data
        /\ \A k \in 1..(Len(split_chunks) - 1) : Len(split_chunks[k]) = split_size
        /\ Len(split_chunks[Len(split_chunks)]) \in 1..split_size

C2_Witness ==
    /\ op = "Split"
    /\ Len(split_data) = 4 /\ split_size = 3
    /\ Len(split_chunks) = 2

\* C3: a fault in rebuild_chunk's own code makes that call invoke
\* response_failed exactly once, with an empty byte sequence and with the
\* Transport already reset, whatever had been accumulated; a complete
\* well-formed message delivered next is rebuilt. (For a delegate that has
\* a response_failed.)
C3_FaultReportsEmptyAndResets ==
    /\ \A i \in 1..Len(caught) :
         caught[i].origin \in InternalOrigins =>
            /\ hasFailed =>
                 LET fs == EventsOf(caught[i].call, "failed")
                 IN  /\ Len(fs) = 1
                     /\ fs[1].data = <<>>
                     /\ fs[1].chunks = <<>> /\ fs[1].expected_length = 0
            /\ EventsOf(caught[i].call, "rebuilt") = <<>>
            /\ (op = "Deliver" /\ entry.call = caught[i].call) =>
                 chunks = <<>> /\ expected_length = 0
    /\ (recovering /\ ncalls = 1 /\ lastChunk.kind = "bytes"
          /\ lastChunk.data # <<>> /\ Len(lastChunk.data) >= lastChunk.data[1]) =>
            /\ events # <<>>
            /\ events[1].kind = "rebuilt" /\ events[1].data = lastChunk.data

C3_Witness ==
    /\ hasFailed
    /\ op = "Deliver"
    /\ entry.chunks # <<>> /\ entry.chunks[1].kind = "bytes"
    /\ InternalFault(caught, entry.call)
    /\ Len(events) = 1 /\ events[1].kind = "failed"

\* C4: one call of rebuild_chunk never invokes both response_rebuilt and
\* response_failed.
C4_NeverBothCallbacks ==
    \A i, j \in 1..Len(events) :
        ~(events[i].call = events[j].call
            /\ events[i].kind = "rebuilt" /\ events[j].kind = "failed")

\* C5: when response_rebuilt is entered the Transport is already Idle, so a
\* chunk the callback delivers re-entrantly starts a new message and the
\* message being delivered is not changed by it.
C5_ResetBeforeNotify ==
    /\ \A i \in 1..Len(events) :
         events[i].kind = "rebuilt" =>
            events[i].chunks = <<>> /\ events[i].expected_length = 0
    /\ (stack # <<>> /\ Top.cb = "rebuilt" /\ Top.reent = 0) =>
         chunks = <<>> /\ expected_length = 0
    /\ (stack # <<>> /\ Top.cb = "rebuilt" /\ Top.reent = 1 /\ op = "Deliver"
          /\ lastChunk.kind = "bytes" /\ lastChunk.data # <<>>) =>
         /\ chunks = <<lastChunk>> /\ expected_length = lastChunk.data[1]
         /\ Len(EventsOf(Top.call, "rebuilt")) = 1
         /\ EventsOf(Top.call, "rebuilt")[1].data = Top.data
    /\ (Len(stack) >= 2 /\ Top.cb = "rebuilt" /\ Top.reent = 0
          /\ stack[Len(stack) - 1].cb = "rebuilt"
          /\ stack[Len(stack) - 1].reent = 1) =>
         /\ Top.data = lastChunk.data
         /\ EventsOf(stack[Len(stack) - 1].call, "rebuilt")[1].data
              = stack[Len(stack) - 1].data

C5_Witness ==
    /\ Len(stack) = 2
    /\ Top.cb = "rebuilt" /\ Top.reent = 0
    /\ stack[1].cb = "rebuilt" /\ stack[1].reent = 1
    /\ Len(stack[1].data) >= 2

\* C6: a completed message is not cut to expected_length: when the buffered
\* chunks hold more bytes than declared, response_rebuilt receives all of
\* them.
C6_NoTruncation ==
    (cyc # <<>> /\ SumLen(cyc) > Declared) =>
        /\ events # <<>>
        /\ events[1].kind = "rebuilt"
        /\ Len(events[1].data) = SumLen(cyc)
        /\ Len(events[1].data) > Declared
        /\ events[1].data = FlatBytes(cyc)

C6_Witness ==
    /\ cyc # <<>> /\ SumLen(cyc) > Declared /\ Declared > 0
    /\ events # <<>> /\ events[1].kind = "rebuilt"

\* C7: after a completion or a failure the Transport is in the state of a
\* newly constructed one, and from then on does what a newly constructed one
\* does with the same chunks: same callback, same payload, same state.
C7_ResetIsFresh ==
    /\ shadow = Self
    /\ shadowOut = lastOut

C7_Witness ==
    /\ recovering
    /\ ncalls = 1 /\ op = "Deliver"
    /\ lastOut.out = "rebuilt" /\ Len(lastOut.data) >= 2

\* C8: no exception raised by rebuild_chunk's own code (reading the length,
\* appending, concatenating) leaves rebuild_chunk; a call ends by raising
\* only when response_failed itself raises.
C8_FaultsDoNotPropagate ==
    /\ result.status = "raised" =>
         op = "FailedRaises" /\ result.origin = "failed_cb"
    /\ op = "Deliver" => result.status \in {"returned", "running"}
    /\ (op = "Deliver" /\ ~hasFailed) => result.status = "returned" \/ lastOut.out = "rebuilt"

C8_Witness ==
    /\ op = "FailedReturns"
    /\ stack = <<>>
    /\ entry.chunks # <<>>
    /\ InternalFault(caught, 1)
    /\ result.status = "returned"

\* C9: an empty chunk delivered to an Idle Transport invokes no callback,
\* is not an error, and leaves chunks empty and expected_length as it was.
C9_EmptyFirstChunkIgnored ==
    (op = "Deliver" /\ entry.chunks = <<>> /\ HasLen(lastChunk)
       /\ lastChunk.data = <<>>) =>
        /\ chunks = <<>>
        /\ expected_length = entry.expected_length
        /\ EventsOf(entry.call, "rebuilt") = <<>>
        /\ EventsOf(entry.call, "failed") = <<>>
        /\ ~\E i \in 1..Len(caught) : caught[i].call = entry.call
        /\ result.status = "returned"
        /\ lastOut.out = "return"

C9_Witness ==
    /\ op = "Deliver" /\ ncalls = 1
    /\ entry.chunks = <<>>
    /\ lastChunk = [kind |-> "bytes", data |-> <<>>]
    /\ events = <<>>

\* C10: split_in_chunks of empty data returns an empty list, whatever the
\* chunk_size.
C10_SplitEmpty ==
    (op = "Split" /\ split_data = <<>>) => split_chunks = <<>>

C10_Witness ==
    /\ op = "Split"
    /\ split_data = <<>> /\ split_size = MaxChunkSize
    /\ split_chunks = <<>>

\* C11: split_in_chunks leaves chunks, expected_length and its data as they
\* were and invokes no callback, so a Transport on which it is called in
\* between deliveries produces the callbacks, payloads and states of one on
\* which it is not called.
C11_SplitHasNoSideEffects ==
    /\ [](shadow = Self /\ shadowOut = lastOut)
    /\ [](cyc # <<>> /\ ~CycLive =>
            events # <<>> /\ events[1].kind = "rebuilt"
                /\ events[1].data = FlatBytes(cyc))
    /\ [][op' = "Split" =>
            UNCHANGED <<chunks, expected_length, events, caught, stack,
                        result, split_data, split_size>>]_vars

C11_Witness ==
    /\ split_at # <<>>
    /\ split_chunks # <<>>
    /\ op = "Deliver" /\ entry.chunks = split_at
    /\ lastOut.out = "rebuilt"
    /\ Len(cyc) >= 2

\* C12: a message whose first byte is its length, split with any chunk_size
\* and delivered in order to an Idle Transport: no callback before the last
\* chunk, exactly one response_rebuilt with the message on the last chunk,
\* no response_failed, and the Transport is Idle afterwards.
C12_RoundTrip ==
    op # "init" =>
        /\ sent < Len(split_chunks) =>
             events = <<>> /\ stack = <<>> /\ (sent > 0 => chunks # <<>>)
        /\ sent = Len(split_chunks) =>
             /\ Len(events) = 1
             /\ events[1].kind = "rebuilt" /\ events[1].data = split_data
             /\ EventsOf(1, "failed") = <<>>
             /\ chunks = <<>> /\ expected_length = 0

\* C13: between calls the Transport is either Idle (chunks empty,
\* expected_length 0) or Accumulating (chunks not empty, the first chunk not
\* empty, expected_length its byte 0, and fewer bytes buffered than
\* expected_length).
C13_IdleOrAccumulating ==
    \/ chunks = <<>> /\ expected_length = 0
    \/ /\ chunks # <<>>
       /\ chunks[1].kind = "bytes" /\ chunks[1].data # <<>>
       /\ expected_length = chunks[1].data[1]
       /\ SumLen(chunks) < expected_length

C13_Witness ==
    /\ Len(chunks) >= 2
    /\ stack = <<>>
    /\ expected_length = chunks[1].data[1]
    /\ SumLen(chunks) < expected_length

\* C14: byte chunks delivered without rebuild_chunk catching an exception:
\* the bytes handed to response_rebuilt followed by the bytes left in the
\* buffer are the bytes that were in the buffer followed by the chunk
\* delivered, in order; while a message is incomplete the buffer holds all
\* the bytes delivered for it.
C14_BytesConserved ==
    /\ (op = "Deliver" /\ lastChunk.kind = "bytes"
          /\ (\A i \in 1..Len(entry.chunks) : entry.chunks[i].kind = "bytes")
          /\ ~\E i \in 1..Len(caught) : caught[i].call = entry.call) =>
         (IF lastOut.out = "rebuilt" THEN lastOut.data ELSE <<>>)
              \o FlatBytes(chunks)
           = FlatBytes(entry.chunks) \o lastChunk.data
    /\ CycLive => FlatBytes(chunks) = FlatBytes(cyc)

C14_Witness ==
    /\ op = "Deliver" /\ ncalls = 1
    /\ entry.chunks # <<>>
    /\ Len(lastChunk.data) = 2
    /\ lastOut.out = "rebuilt" /\ Len(lastOut.data) >= 3
    /\ caught = <<>>

AllBytes(fs) == \A i \in 1..Len(fs) : fs[i].kind = "bytes"

NothingCaught == ~\E i \in 1..Len(caught) : caught[i].call = entry.call

\* C15: expected_length is byte 0 of the first chunk of the message; a later
\* chunk delivered while Accumulating does not change it, whatever its first
\* byte, and the completion test uses that value; it changes only when the
\* state is reset at completion or on error.
C15_LengthFixedForTheMessage ==
    /\ chunks # <<>> => expected_length = chunks[1].data[1]
    /\ (op = "Deliver" /\ entry.chunks # <<>>) =>
         /\ chunks # <<>> =>
              /\ expected_length = entry.expected_length
              /\ chunks[1] = entry.chunks[1]
         /\ chunks = <<>> =>
              /\ expected_length = 0
              /\ lastOut.out = "rebuilt" \/ ~NothingCaught
         /\ (lastChunk.kind = "bytes" /\ AllBytes(entry.chunks)) =>
              (lastOut.out = "rebuilt"
                 <=> SumLen(entry.chunks) + Len(lastChunk.data)
                       >= entry.expected_length)

C15_Witness ==
    /\ op = "Deliver"
    /\ entry.chunks # <<>> /\ chunks # <<>>
    /\ lastChunk.kind = "bytes" /\ lastChunk.data # <<>>
    /\ lastChunk.data[1] # expected_length
    /\ lastChunk.data[1] < SumLen(chunks)

\* C16: a byte chunk (empty or not) delivered while Accumulating that leaves
\* the cumulative length below expected_length invokes neither callback,
\* enters no error handling and leaves the transport Accumulating with the
\* chunk buffered; nothing but a delivery ever changes the buffer of a message
\* in progress.
C16_Stalled ==
    (op = "Deliver" /\ entry.chunks # <<>> /\ lastChunk.kind = "bytes"
       /\ SumLen(entry.chunks) + Len(lastChunk.data) < entry.expected_length) =>
        /\ lastOut.out = "return"
        /\ result.status = "returned"
        /\ stack = <<>>
        /\ NothingCaught
        /\ EventsOf(entry.call, "rebuilt") = <<>>
        /\ EventsOf(entry.call, "failed") = <<>>
        /\ chunks = Append(entry.chunks, lastChunk)
        /\ expected_length = entry.expected_length

C16_UndersizedStallsSilently ==
    /\ [](C16_Stalled)
    /\ [][chunks # <<>> /\ chunks' # chunks => op' = "Deliver"]_vars

C16_Witness ==
    /\ op = "Deliver"
    /\ Len(entry.chunks) = 2 /\ entry.chunks[2].data = <<>>
    /\ lastChunk = [kind |-> "bytes", data |-> <<>>]
    /\ chunks = Append(entry.chunks, lastChunk)
    /\ events = <<>>

NonEmptyCount(fs) == Cardinality({i \in 1..Len(fs) : fs[i].data # <<>>})

Upto(fs, i) == SubSeq(fs, 1, i)

After(fs, i) == SubSeq(fs, i + 1, Len(fs))

\* while Accumulating, after any chunk that brought the cumulative length to
\* s, fewer than L - s non-empty chunks have followed
C17_StillShort ==
    chunks # <<>> =>
        \A i \in 1..Len(chunks) :
            /\ SumLen(Upto(chunks, i)) < expected_length
            /\ NonEmptyCount(After(chunks, i))
                 < expected_length - SumLen(Upto(chunks, i))

\* the chunks of a completed message: after any of them that left the
\* cumulative length at s < L, at most L - s non-empty chunks followed, the
\* last of which fired the success callback
C17_CompletedInTime ==
    (cyc # <<>> /\ ~CycLive) =>
        /\ events # <<>> /\ events[1].kind = "rebuilt"
        /\ NonEmptyCount(cyc) <= MaxAccByte
        /\ \A i \in 1..(Len(cyc) - 1) :
             /\ SumLen(Upto(cyc, i)) < Declared
             /\ NonEmptyCount(After(cyc, i)) <= Declared - SumLen(Upto(cyc, i))

\* C17: a message started with expected_length L and cumulative length s < L
\* is completed (success callback) no later than the (L - s)-th following
\* non-empty chunk, so a message has at most as many non-empty chunks as a
\* byte can declare; and if non-empty byte chunks keep arriving, every
\* started message is eventually completed.
C17_BoundedCompletion ==
    /\ [](C17_StillShort /\ C17_CompletedInTime)
    /\ (chunks # <<>>) ~> (chunks = <<>> /\ lastOut.out = "rebuilt")

C17_Witness ==
    /\ op = "Deliver" /\ lastOut.out = "rebuilt"
    /\ Len(cyc) = MaxChunks
    /\ cyc[2].data = <<>>
    /\ Declared - Len(cyc[1].data) = 1

C18_Extended ==
    (op = "Deliver" /\ entry.chunks # <<>>) =>
        \/ /\ chunks = Append(entry.chunks, lastChunk)
           /\ SumLen(chunks) = SumLen(entry.chunks) + PyLen(lastChunk)
           /\ SumLen(chunks) >= SumLen(entry.chunks)
        \/ /\ chunks = <<>>
           /\ expected_length = 0
           /\ lastOut.out = "rebuilt" \/ ~NothingCaught

\* C18: a delivery while Accumulating extends the buffer by exactly the
\* delivered chunk, so the cumulative length of the buffer never decreases
\* from one delivery to the next; it drops, to zero, only in a delivery that
\* resets the state on completion or on error.
C18_CumulativeLengthMonotone ==
    /\ [](C18_Extended)
    /\ [][SumLen(chunks') < SumLen(chunks) =>
            /\ chunks' = <<>> /\ expected_length' = 0
            /\ op' = "Deliver"
            /\ lastOut'.out = "rebuilt" \/ caught' # <<>>]_vars

C18_Witness ==
    /\ op = "Deliver"
    /\ Len(entry.chunks) = 2
    /\ lastChunk.kind = "bytes" /\ Len(lastChunk.data) = 1
    /\ chunks = Append(entry.chunks, lastChunk)
    /\ SumLen(chunks) = SumLen(entry.chunks) + 1

\* C19: with a delegate that has no response_failed, a fault inside
\* rebuild_chunk still resets the transport to Idle (no chunks,
\* expected_length 0), the call invokes no callback and returns normally;
\* the failure callback is never invoked and no call ever raises.
C19_FailureCallbackOptional ==
    ~hasFailed =>
        /\ \A i \in 1..Len(events) : events[i].kind # "failed"
        /\ \A i \in 1..Len(stack) : stack[i].cb # "failed"
        /\ result.status # "raised"
        /\ (op = "Deliver" /\ InternalFault(caught, entry.call)) =>
             /\ chunks = <<>> /\ expected_length = 0
             /\ result.status = "returned"
             /\ lastOut.out = "return"
             /\ EventsOf(entry.call, "rebuilt") = <<>>
             /\ EventsOf(entry.call, "failed") = <<>>
        /\ op = "RebuiltRaises" =>
             /\ chunks = <<>> /\ expected_length = 0
             /\ result.status = "returned"

C19_Witness ==
    /\ ~hasFailed
    /\ op = "Deliver" /\ InternalFault(caught, entry.call)
    /\ entry.chunks # <<>> /\ entry.expected_length > 0
    /\ chunks = <<>> /\ expected_length = 0
    /\ result.status = "returned"

====
